---- MODULE Spec2Model ----
(***************************************************************************)
(* GDPopt logic-based outer approximation: the main loop of                *)
(* GDP_LOA_Solver._solve_gdp_with_loa (pyomo/contrib/gdpopt/loa.py) and of *)
(* GDP_GLOA_Solver._solve_gdp_with_gloa (pyomo/contrib/gdpopt/gloa.py) as  *)
(* a state machine.  One action per statement group of the loop; the       *)
(* MILP/NLP solvers, the cut generators and the clock are oracles whose    *)
(* outcomes are drawn from small sets.  The bound tracker, the termination *)
(* check, the fixing protocol and the no-good cut live in modules of the   *)
(* package that the drivers only call (algorithm_base_class, util,         *)
(* cut_generation); they are modelled from the design document.            *)
(***************************************************************************)
EXTENDS Integers, Sequences, FiniteSets, TLC

\* ------------------------------------------------------------------ bounds
MaxIterLim == 3
MaxVal == 2
MaxCombos == 2
MaxTol == 1
MaxCombosRepeat == 4
MaxCoord == 3
MaxTolerance == 2
MaxArgs == 4
MaxIdxLen == 2
MaxCalls == 3
MaxConstructs == 2

Vals == 0..MaxVal
Infinity == MaxVal + 1
NegInfinity == 0 - Infinity
Combos(n) == 1..n

Algorithms == {"LOA", "GLOA"}
Senses == {"minimize", "maximize"}
BoolVars == {"Y1"}
DiscVars == {"z"}
SubVars == BoolVars \cup DiscVars

\* A variable-value snapshot is identified by the master iteration whose
\* subproblem solve produced it (0: none) and the objective value it gives.
NoSolution == [iter |-> 0, obj |-> 0]

VARIABLES
    alg,                  \* which driver runs: LOA or GLOA
    iterlim,              \* config.iterlim
    objective_sense,      \* self.objective_sense
    bound_tolerance,      \* configured gap / improvement tolerance
    force_subproblem_nlp, \* config.force_subproblem_nlp
    n_combos,             \* number of discrete combinations of the model
    pc,                   \* position of the driver in _solve_gdp_with_*
    master_iteration,     \* self.master_iteration
    mip_iteration,        \* self.mip_iteration
    nlp_iteration,        \* self.nlp_iteration
    dual_bound,           \* bound tracker: current relaxation bound
    primal_bound,         \* bound tracker: best feasible objective
    mip_feasible,         \* result of the last solve_linear_GDP
    nlp_feasible,         \* result of the last solve_subproblem
    primal_improved,      \* result of the last _update_bounds(primal=...)
    added,                \* result of the last add_no_good_cut
    master_sol,           \* master's discrete solution: [combo, iter]
    master_obj,           \* value of the master objective at that solution
    no_good_cuts,         \* combinations excluded from the master
    oa_cuts,              \* iterations whose OA / affine cuts are in the master
    slacks_in_obj,        \* LOA: cuts whose slacks the penalty objective sums
    sub_fixed,            \* subproblem: fixed flag of each discrete variable
    saved_fixed,          \* fixing protocol: the flags saved on entry
    fix_active,           \* inside the scoped fixing block
    fixed_from,           \* master iteration whose solution is fixed (0: none)
    sub_solution,         \* subproblem's current solution snapshot
    incumbent,            \* best known subproblem solution snapshot
    orig_vals,            \* variable values of the original model
    termination_condition,\* pyomo_results.solver.termination_condition
    time_up,              \* the clock oracle: elapsed time >= time limit
    results_produced,     \* _get_final_pyomo_results_object has run
    transfers,            \* number of incumbent transfers performed
    left_at,              \* where the loop was left: none/check1/check2/while
    master_solves,        \* history: master solves that returned
    nlp_solves,           \* history: subproblem solves that returned
    callbacks,            \* history: post-master-solve callbacks invoked
    events,               \* history: events of the current master iteration
    fixed_before,         \* history: fixed flags right before the last block
    has_objective,        \* the model passed to solve has an active objective
    orig_setup_ops,       \* setup operations applied to the original model
    raised_in,            \* history: the step whose exception left the driver
    error_kind,           \* history: the error that reached the caller
    tried,                \* history: combinations handed to the subproblem
    recurred,             \* history: a combination was handed over twice
    primal_from,          \* history: iteration whose solve set primal_bound
    captured_fixed,       \* history: fixing was active at the incumbent's capture
    main_obj_active,      \* master: its own objective is active
    penalty_sign,         \* LOA: sign_adjust of the last penalty expression
    dual_from,            \* expression the last dual bound update was given
    callback_dual,        \* history: dual bound when the callback last ran
    cs_points,            \* ContinuousSet: the members of the set, sorted
    cs_fe,                \* ContinuousSet._fe
    cs_scheme,            \* ContinuousSet._discretization_info['scheme']
    cs_call,              \* ContinuousSet: the last method call and its arguments
    cs_result,            \* ContinuousSet: what that call returned or raised
    cs_constructed,       \* ContinuousSet._constructed
    cs_declared,          \* ContinuousSet: the values given by initialize
    cs_lb,                \* ContinuousSet: declared lower bound of the domain
    cs_ub,                \* ContinuousSet: declared upper bound of the domain
    cs_kind,              \* ContinuousSet: class of the declared values
    cs_constructs,        \* history: number of construct calls
    ci_scalar,            \* CountedCallInitializer._scalar
    ci_nargs,             \* argument count of the rule, a bound self ignored
    ci_flag,              \* CountedCallInitializer._is_counted_rule
    ci_calls,             \* history: number of __call__ invocations
    ci_first_len,         \* history: index length seen by the first __call__
    ci_answers,           \* history: kinds of answer __call__ has given
    gen_active,           \* a CountedCallGenerator has been created
    gen_count,            \* CountedCallGenerator._count
    gen_passed,           \* history: count argument of every __next__ call
    twin                  \* the other driver, run on the same oracle outcomes

config == <<alg, iterlim, objective_sense, bound_tolerance,
            force_subproblem_nlp, n_combos>>
counters == <<master_iteration, mip_iteration, nlp_iteration>>
bounds_state == <<dual_bound, primal_bound>>
master_state == <<master_sol, master_obj, no_good_cuts, oa_cuts,
                  slacks_in_obj>>
fix_state == <<sub_fixed, saved_fixed, fix_active, fixed_from>>
flags == <<mip_feasible, nlp_feasible, primal_improved, added>>
outcome == <<termination_condition, results_produced, transfers, left_at,
             orig_vals>>
history == <<master_solves, nlp_solves, callbacks, events, fixed_before>>
setup_state == <<has_objective, orig_setup_ops>>
ledger == <<raised_in, error_kind, tried, recurred, primal_from,
            captured_fixed>>

objective_state == <<main_obj_active, penalty_sign, dual_from>>
loop_vars == <<config, counters, bounds_state, master_state, fix_state, flags,
               outcome, history, setup_state, ledger, pc, sub_solution,
               incumbent, time_up, objective_state, callback_dual, twin>>
contset == <<cs_points, cs_fe, cs_scheme, cs_call, cs_result, cs_constructed,
             cs_declared, cs_lb, cs_ub, cs_kind, cs_constructs>>
initializer == <<ci_scalar, ci_nargs, ci_flag, ci_calls, ci_first_len,
                 ci_answers, gen_active, gen_count, gen_passed>>

vars == <<loop_vars, contset, initializer>>

\* ------------------------------------------------------------ bound tracker
IsMin == objective_sense = "minimize"

\* Initial bounds: nothing known in either direction.
InitialDual == IF IsMin THEN NegInfinity ELSE Infinity
InitialPrimal == IF IsMin THEN Infinity ELSE NegInfinity

\* The infeasibility sentinel of the dual bound for the objective's sense.
InfeasibleSentinel == IF IsMin THEN Infinity ELSE NegInfinity

\* _update_dual_bound_to_infeasible
DualBoundToInfeasible == InfeasibleSentinel

\* Whether a relaxation value tightens the stored dual bound.
Tightens(obj, dual) == IF IsMin THEN obj > dual ELSE obj < dual

\* Variant: every feasible master objective overwrites the dual bound.
DualAfterMasterSolveUnguarded(feasible, obj, dual) ==
    IF ~feasible THEN DualBoundToInfeasible ELSE obj

\* _update_bounds_after_master_problem_solve: the stored dual bound after a
\* master solve that was feasible with objective obj, or infeasible.
DualAfterMasterSolve(feasible, obj, dual) ==
    IF ~feasible THEN DualBoundToInfeasible
    ELSE IF Tightens(obj, dual) THEN obj
    ELSE dual

\* _update_bounds(primal=...): strict improvement beyond the tolerance.
PrimalImproved(new, primal) ==
    IF primal = InitialPrimal THEN TRUE
    ELSE IF IsMin THEN new < primal - bound_tolerance
    ELSE new > primal + bound_tolerance

PrimalAfterUpdate(new, primal) ==
    IF PrimalImproved(new, primal) THEN new ELSE primal

\* ------------------------------------------------------- termination check
\* (a) the gap between a known primal bound and the dual bound is closed
GapClosed ==
    /\ primal_bound # InitialPrimal
    /\ IF IsMin THEN primal_bound - dual_bound <= bound_tolerance
       ELSE dual_bound - primal_bound <= bound_tolerance

\* (b) the dual bound proves infeasibility
ProvenInfeasible ==
    /\ primal_bound = InitialPrimal
    /\ dual_bound = InfeasibleSentinel

\* (c) iteration limit reached
ReachedIterationLimit == master_iteration >= iterlim

\* (d) time limit reached
ReachedTimeLimit == time_up

\* The one reason any_termination_criterion_met records, "none" when it
\* returns False.
TerminationReason ==
    IF GapClosed THEN "converged"
    ELSE IF ProvenInfeasible THEN "infeasible"
    ELSE IF ReachedIterationLimit THEN "iteration_limit"
    ELSE IF ReachedTimeLimit THEN "time_limit"
    ELSE "none"

AnyTerminationCriterionMet == TerminationReason # "none"

\* ------------------------------------------------- the two drivers side by side
\* _solve_gdp_with_loa and _solve_gdp_with_gloa are two functions. The
\* actions below follow the driver named by alg; twin follows the other
\* one, statement by statement, on the outcomes the oracles gave alg's run.
OtherDriver == IF alg = "LOA" THEN "GLOA" ELSE "LOA"

\* The other driver on entry of its _solve_gdp_with_* function.
TwinStartOf(a) ==
    [driver                |-> a,
     pc                    |-> "setup",
     master_iteration      |-> 0,
     master_solves         |-> 0,
     nlp_solves            |-> 0,
     callbacks             |-> 0,
     dual_bound            |-> InitialDual,
     primal_bound          |-> InitialPrimal,
     termination_condition |-> "none",
     left_at               |-> "none",
     events                |-> <<>>,
     results_produced      |-> FALSE,
     transfers             |-> 0,
     penalty_updates       |-> 0,
     dual_expression       |-> "none",
     cut_generator         |-> "none"]

TwinStart == TwinStartOf(OtherDriver)

\* ---------------------------------------------------------------- Init
\* No ContinuousSet and no initializer takes part in a solve of the drivers.
NoCall == [op |-> "none", point |-> 0, tol |-> 0]
NoResult == [kind |-> "idle", val |-> 0]
NoBound == 0 - 1
ContSetIdle ==
    /\ cs_points = <<>>
    /\ cs_fe = <<>>
    /\ cs_scheme = "none"
    /\ cs_call = NoCall
    /\ cs_result = NoResult
    /\ cs_constructed = FALSE
    /\ cs_declared = {}
    /\ cs_lb = NoBound
    /\ cs_ub = NoBound
    /\ cs_kind = "numeric"
    /\ cs_constructs = 0

InitializerIdle ==
    /\ ci_scalar = FALSE
    /\ ci_nargs = 0
    /\ ci_flag = "None"
    /\ ci_calls = 0
    /\ ci_first_len = 0
    /\ ci_answers = {}
    /\ gen_active = FALSE
    /\ gen_count = 0
    /\ gen_passed = <<>>

Init ==
    /\ alg \in Algorithms
    /\ iterlim \in 0..MaxIterLim
    /\ objective_sense \in Senses
    /\ bound_tolerance \in 0..MaxTol
    /\ force_subproblem_nlp \in BOOLEAN
    /\ n_combos \in 1..MaxCombos
    /\ pc = "setup"
    /\ master_iteration = 0
    /\ mip_iteration = 0
    /\ nlp_iteration = 0
    /\ dual_bound = InitialDual
    /\ primal_bound = InitialPrimal
    /\ mip_feasible = FALSE
    /\ nlp_feasible = FALSE
    /\ primal_improved = FALSE
    /\ added = FALSE
    /\ master_sol = [combo |-> 0, iter |-> 0]
    /\ master_obj = 0
    /\ no_good_cuts = {}
    /\ oa_cuts = {}
    /\ slacks_in_obj = {}
    /\ sub_fixed \in [SubVars -> BOOLEAN]
    /\ saved_fixed = sub_fixed
    /\ fix_active = FALSE
    /\ fixed_from = 0
    /\ sub_solution = NoSolution
    /\ incumbent = NoSolution
    /\ orig_vals = NoSolution
    /\ termination_condition = "none"
    /\ time_up = FALSE
    /\ results_produced = FALSE
    /\ transfers = 0
    /\ left_at = "none"
    /\ master_solves = 0
    /\ nlp_solves = 0
    /\ callbacks = 0
    /\ events = <<>>
    /\ fixed_before = sub_fixed
    /\ has_objective \in BOOLEAN
    /\ orig_setup_ops = {}
    /\ raised_in = "none"
    /\ error_kind = "none"
    /\ tried = {}
    /\ recurred = FALSE
    /\ primal_from = 0
    /\ captured_fixed = FALSE
    /\ main_obj_active = TRUE
    /\ penalty_sign = 0
    /\ dual_from = "none"
    /\ callback_dual = InitialDual
    /\ twin = TwinStart
    /\ ContSetIdle
    /\ InitializerIdle

\* --------------------------------------------------------------- oracles
\* The clock only moves forward: once the time limit is passed it stays so.
ClockAfter == IF time_up THEN {TRUE} ELSE BOOLEAN

\* The combinations the master's constraints still admit.
Admitted == Combos(n_combos) \ no_good_cuts

\* ------------------------------------------- the other driver's statements
\* add_outer_approximation_cuts (loa.py) / add_affine_cuts (gloa.py)
CutGeneratorOf(a) ==
    IF a = "LOA" THEN "add_outer_approximation_cuts" ELSE "add_affine_cuts"

\* The expression the dual bound update is handed: oa_obj (loa.py),
\* master_obj (gloa.py).
DualExpressionOf(a) == IF a = "LOA" THEN "oa_obj" ELSE "master_obj"

\* What the oracles answered in the step just taken.
Outcomes ==
    [raised       |-> raised_in # "none",
     mip_feasible |-> mip_feasible,
     master_obj   |-> master_obj,
     nlp_feasible |-> nlp_feasible,
     new_primal   |-> sub_solution.obj,
     added        |-> added,
     time_up      |-> time_up]

\* any_termination_criterion_met on the bounds and counter of t.
TerminationReasonOf(t, o) ==
    IF /\ t.primal_bound # InitialPrimal
       /\ (IF IsMin THEN t.primal_bound - t.dual_bound <= bound_tolerance
           ELSE t.dual_bound - t.primal_bound <= bound_tolerance)
    THEN "converged"
    ELSE IF t.primal_bound = InitialPrimal /\ t.dual_bound = InfeasibleSentinel
    THEN "infeasible"
    ELSE IF t.master_iteration >= iterlim THEN "iteration_limit"
    ELSE IF o.time_up THEN "time_limit"
    ELSE "none"

\* Everything before the loop; a model without objective is rejected.
DriverSetup(t, o) ==
    IF o.raised THEN [t EXCEPT !.pc = "error"] ELSE [t EXCEPT !.pc = "while"]

\* while self.master_iteration < config.iterlim:
\*     self.master_iteration += 1
DriverLoopHead(t, o) ==
    IF t.master_iteration < iterlim
    THEN [t EXCEPT !.master_iteration = t.master_iteration + 1,
                   !.events = <<>>,
                   !.pc = "master"]
    ELSE [t EXCEPT !.left_at = "while", !.pc = "results"]

\* with time_code(self.timing, 'mip'): the master solve, the dual bound
\* update and the callback; loa.py re-derives its penalty objective first.
DriverMipBlock(t, o) ==
    IF o.raised
    THEN [t EXCEPT !.pc = "error",
                   !.penalty_updates =
                       IF t.driver = "LOA" THEN t.penalty_updates + 1
                       ELSE t.penalty_updates]
    ELSE [t EXCEPT !.penalty_updates =
                       IF t.driver = "LOA" THEN t.penalty_updates + 1
                       ELSE t.penalty_updates,
                   !.master_solves = t.master_solves + 1,
                   !.dual_expression = DualExpressionOf(t.driver),
                   !.dual_bound = DualAfterMasterSolve(o.mip_feasible,
                                                       o.master_obj,
                                                       t.dual_bound),
                   !.callbacks = t.callbacks + 1,
                   !.events = Append(t.events, "master"),
                   !.pc = "check1"]

\* if self.any_termination_criterion_met(config): break
DriverCheckpoint(t, o, here, onward) ==
    IF TerminationReasonOf(t, o) # "none"
    THEN [t EXCEPT !.termination_condition = TerminationReasonOf(t, o),
                   !.left_at = here,
                   !.pc = "results"]
    ELSE [t EXCEPT !.pc = onward]

\* with fix_master_solution_in_subproblem(...):
DriverFix(t, o) ==
    [t EXCEPT !.events = Append(t.events, "fix"), !.pc = "nlp"]

\* nlp_feasible = solve_subproblem(...)
DriverSubproblem(t, o) ==
    IF o.raised THEN [t EXCEPT !.pc = "error"]
    ELSE [t EXCEPT !.nlp_solves = t.nlp_solves + 1,
                   !.events = Append(t.events, "nlp"),
                   !.pc = "accept"]

\* if nlp_feasible: the primal bound update and the incumbent update.
DriverFeasible(t, o) ==
    IF ~o.nlp_feasible THEN [t EXCEPT !.pc = "release"]
    ELSE [t EXCEPT !.primal_bound = PrimalAfterUpdate(o.new_primal,
                                                      t.primal_bound),
                   !.pc = IF o.raised THEN "error" ELSE "cuts"]

\* The driver's own cut generator (gloa.py: after the optional
\* disjunctive variable bounding of the master).
DriverCuts(t, o) ==
    IF o.raised THEN [t EXCEPT !.pc = "error"]
    ELSE [t EXCEPT !.cut_generator = CutGeneratorOf(t.driver),
                   !.events = Append(t.events, "cuts"),
                   !.pc = "release"]

\* End of the with block.
DriverRelease(t, o) ==
    [t EXCEPT !.events = Append(t.events, "release"), !.pc = "nogood"]

\* added = add_no_good_cut(...); if not added:
\*     self._update_dual_bound_to_infeasible(logger)
DriverNoGood(t, o) ==
    [t EXCEPT !.dual_bound = IF ~o.added THEN InfeasibleSentinel
                             ELSE t.dual_bound,
              !.events = Append(t.events, "nogood"),
              !.pc = "check2"]

\* self._get_final_pyomo_results_object()
DriverResults(t, o) ==
    [t EXCEPT !.results_produced = TRUE, !.pc = "gate"]

\* if not termination_condition == infeasible: transfer; return
DriverReturn(t, o) ==
    [t EXCEPT !.transfers = IF t.termination_condition # "infeasible"
                            THEN t.transfers + 1 ELSE t.transfers,
              !.pc = "done"]

\* One statement of the driver t.driver, from where t stands.
DriverStep(t, o) ==
    IF t.pc = "setup" THEN DriverSetup(t, o)
    ELSE IF t.pc = "while" THEN DriverLoopHead(t, o)
    ELSE IF t.pc = "master" THEN DriverMipBlock(t, o)
    ELSE IF t.pc = "check1" THEN DriverCheckpoint(t, o, "check1", "fix")
    ELSE IF t.pc = "fix" THEN DriverFix(t, o)
    ELSE IF t.pc = "nlp" THEN DriverSubproblem(t, o)
    ELSE IF t.pc = "accept" THEN DriverFeasible(t, o)
    ELSE IF t.pc = "cuts" THEN DriverCuts(t, o)
    ELSE IF t.pc = "release" THEN DriverRelease(t, o)
    ELSE IF t.pc = "nogood" THEN DriverNoGood(t, o)
    ELSE IF t.pc = "check2" THEN DriverCheckpoint(t, o, "check2", "while")
    ELSE IF t.pc = "results" THEN DriverResults(t, o)
    ELSE IF t.pc = "gate" THEN DriverReturn(t, o)
    ELSE t

\* The other driver takes its statement on the outcomes of this step.
TwinNext == DriverStep(twin, Outcomes')

\* ----------------------------------------------------------------- setup
\* _solve_gdp_with_loa / _solve_gdp_with_gloa before the copies are derived:
\* add_util_block receives original_model, and every call that follows
\* receives the util block that now sits on original_model. get_subproblem
\* derives the first copy only after them.
SetupOpsBeforeObjectiveMove ==
    {"add_util_block", "add_disjunct_list", "add_boolean_variable_lists",
     "add_variable_list", "add_constraint_list"}
        \cup (IF force_subproblem_nlp THEN {"add_discrete_variable_list"}
              ELSE {})

SetupOpsOnOriginal ==
    SetupOpsBeforeObjectiveMove
        \cup {"move_nonlinear_objective_to_constraints"}

\* Variant: the missing objective surfaces as the exhausted iterator of
\* next(subproblem.component_data_objects(Objective, active=True, ...)).
NoObjectiveStopIteration == "StopIteration"

\* The error a model without an active objective is rejected with.
NoObjectiveError == "ConfigurationError"

\* Where the rejection can come from: the base class's solve, before any
\* setup call, or the objective move, after the component lists were built.
SetupOpsDoneWhenRejected == {{}, SetupOpsBeforeObjectiveMove}

\* LOA, _setup_augmented_Lagrangian_objective: main_objective.deactivate(),
\* the placeholder oa_obj takes its place. GLOA keeps the master's objective.
MainObjectiveActiveAfterSetup == alg # "LOA"

\* Setup up to the loop head: util block and component lists on the
\* original model, subproblem and master derived from it.
Setup ==
    /\ pc = "setup"
    /\ has_objective
    /\ orig_setup_ops' = SetupOpsOnOriginal
    /\ main_obj_active' = MainObjectiveActiveAfterSetup
    /\ pc' = "while"
    /\ UNCHANGED <<has_objective, ledger>>
    /\ UNCHANGED <<penalty_sign, dual_from, callback_dual, contset,
                   initializer>>
    /\ UNCHANGED <<config, counters, bounds_state, master_state, fix_state,
                   flags, outcome, history, sub_solution, incumbent, time_up>>
    /\ twin' = TwinNext

\* No active objective: the solve is rejected before the loop.
SetupFails ==
    /\ pc = "setup"
    /\ ~has_objective
    /\ orig_setup_ops' \in SetupOpsDoneWhenRejected
    /\ raised_in' = "setup"
    /\ error_kind' = NoObjectiveError
    /\ pc' = "error"
    /\ UNCHANGED <<has_objective, tried, recurred, primal_from,
                   captured_fixed>>
    /\ UNCHANGED <<objective_state, callback_dual, contset, initializer>>
    /\ UNCHANGED <<config, counters, bounds_state, master_state, fix_state,
                   flags, outcome, history, sub_solution, incumbent, time_up>>
    /\ twin' = TwinNext

\* ------------------------------------------------------------- main loop
\* Variant: the loop test lets one iteration too many through.
LoopConditionOffByOne == master_iteration <= iterlim

\* while self.master_iteration < config.iterlim
LoopCondition == master_iteration < iterlim

\* self.master_iteration += 1
NextMasterIteration == master_iteration + 1

\* Loop head taken: the iteration counters are set for a new iteration.
EnterIteration ==
    /\ pc = "while"
    /\ LoopCondition
    /\ master_iteration' = NextMasterIteration
    /\ mip_iteration' = 0
    /\ nlp_iteration' = 0
    /\ events' = <<>>
    /\ pc' = "master"
    /\ UNCHANGED <<setup_state, ledger>>
    /\ UNCHANGED <<objective_state, callback_dual, contset, initializer>>
    /\ UNCHANGED <<config, bounds_state, master_state, fix_state, flags,
                   outcome, master_solves, nlp_solves, callbacks,
                   fixed_before, sub_solution, incumbent, time_up>>
    /\ twin' = TwinNext

\* Loop head not taken: the loop is left through its own condition.
ExitWhile ==
    /\ pc = "while"
    /\ ~LoopCondition
    /\ left_at' = "while"
    /\ pc' = "results"
    /\ UNCHANGED <<setup_state, ledger>>
    /\ UNCHANGED <<objective_state, callback_dual, contset, initializer>>
    /\ UNCHANGED <<config, counters, bounds_state, master_state, fix_state,
                   flags, termination_condition, results_produced, transfers,
                   orig_vals, history, sub_solution, incumbent, time_up>>
    /\ twin' = TwinNext

\* LOA, _update_augmented_Lagrangian_objective: the penalty objective sums
\* the slack variables of every OA cut the master holds at this moment.
\* GLOA solves the master's own objective and has no slacks.
SlacksForObjective == IF alg = "LOA" THEN oa_cuts ELSE {}

\* Variant: the penalty is added with the same sign for both senses.
PenaltySignUnadjusted == IF alg = "LOA" THEN 1 ELSE penalty_sign

\* LOA: sign_adjust = 1 if main_objective.sense == minimize else -1.
\* GLOA derives no penalty expression.
PenaltySign ==
    IF alg = "LOA" THEN (IF IsMin THEN 1 ELSE 0 - 1) ELSE penalty_sign

\* The expression handed to _update_bounds_after_master_problem_solve:
\* LOA the re-derived oa_obj expression, GLOA the master's objective.
DualSource == IF alg = "LOA" THEN "oa_obj" ELSE "master_obj"

\* Variant: the callback is skipped when the master solve is infeasible.
SolveMasterCallbackIfFeasible ==
    /\ pc = "master"
    /\ slacks_in_obj' = SlacksForObjective
    /\ \E feasible \in BOOLEAN, obj \in Vals, c \in Combos(n_combos) :
          /\ feasible => c \in Admitted
          /\ ~feasible => (obj = 0 /\ c = 1)
          /\ mip_feasible' = feasible
          /\ master_sol' = IF feasible
                           THEN [combo |-> c, iter |-> master_iteration]
                           ELSE master_sol
          /\ master_obj' = IF feasible THEN obj ELSE master_obj
          /\ dual_bound' = DualAfterMasterSolve(feasible, obj, dual_bound)
    /\ mip_iteration' = mip_iteration + 1
    /\ master_solves' = master_solves + 1
    /\ callbacks' = IF mip_feasible' THEN callbacks + 1 ELSE callbacks
    /\ time_up' \in ClockAfter
    /\ events' = Append(events, "master")
    /\ penalty_sign' = PenaltySign
    /\ dual_from' = DualSource
    /\ callback_dual' = IF mip_feasible' THEN dual_bound' ELSE callback_dual
    /\ pc' = "check1"
    /\ UNCHANGED <<setup_state, ledger>>
    /\ UNCHANGED <<main_obj_active, contset, initializer>>
    /\ UNCHANGED <<config, master_iteration, nlp_iteration, primal_bound,
                   no_good_cuts, oa_cuts, fix_state, nlp_feasible,
                   primal_improved, added, outcome, nlp_solves,
                   fixed_before, sub_solution, incumbent>>
    /\ twin' = TwinNext

\* The "mip" block: (LOA: re-derive the penalty objective,) solve the
\* master, update the dual bound, invoke the callback.
SolveMaster ==
    /\ pc = "master"
    /\ slacks_in_obj' = SlacksForObjective
    /\ \E feasible \in BOOLEAN, obj \in Vals, c \in Combos(n_combos) :
          /\ feasible => c \in Admitted
          /\ ~feasible => (obj = 0 /\ c = 1)
          /\ mip_feasible' = feasible
          /\ master_sol' = IF feasible
                           THEN [combo |-> c, iter |-> master_iteration]
                           ELSE master_sol
          /\ master_obj' = IF feasible THEN obj ELSE master_obj
          /\ dual_bound' = DualAfterMasterSolve(feasible, obj, dual_bound)
    /\ mip_iteration' = mip_iteration + 1
    /\ master_solves' = master_solves + 1
    /\ callbacks' = callbacks + 1
    /\ time_up' \in ClockAfter
    /\ events' = Append(events, "master")
    /\ penalty_sign' = PenaltySign
    /\ dual_from' = DualSource
    /\ callback_dual' = dual_bound'
    /\ pc' = "check1"
    /\ UNCHANGED <<setup_state, ledger>>
    /\ UNCHANGED <<main_obj_active, contset, initializer>>
    /\ UNCHANGED <<config, master_iteration, nlp_iteration, primal_bound,
                   no_good_cuts, oa_cuts, fix_state, nlp_feasible,
                   primal_improved, added, outcome, nlp_solves,
                   fixed_before, sub_solution, incumbent>>
    /\ twin' = TwinNext

\* solve_linear_GDP raises: the error leaves the driver, nothing is caught.
SolveMasterRaises ==
    /\ pc = "master"
    /\ slacks_in_obj' = SlacksForObjective
    /\ time_up' \in ClockAfter
    /\ pc' = "error"
    /\ raised_in' = "master"
    /\ error_kind' = "SolverError"
    /\ penalty_sign' = PenaltySign
    /\ UNCHANGED <<setup_state, tried, recurred, primal_from, captured_fixed>>
    /\ UNCHANGED <<main_obj_active, dual_from, callback_dual, contset,
                   initializer>>
    /\ UNCHANGED <<config, counters, bounds_state, master_sol, master_obj,
                   no_good_cuts, oa_cuts, fix_state, flags, outcome, history,
                   sub_solution, incumbent>>
    /\ twin' = TwinNext

\* Variant: no termination check between master solve and subproblem.
Checkpoint1Missing ==
    /\ pc = "check1"
    /\ pc' = "fix"
    /\ UNCHANGED <<setup_state, ledger>>
    /\ UNCHANGED <<objective_state, callback_dual, contset, initializer>>
    /\ UNCHANGED <<config, counters, bounds_state, master_state, fix_state,
                   flags, outcome, history, sub_solution, incumbent, time_up>>
    /\ twin' = TwinNext

\* if self.any_termination_criterion_met(config): break   (after the master)
Checkpoint1 ==
    /\ pc = "check1"
    /\ termination_condition' = IF AnyTerminationCriterionMet
                                THEN TerminationReason
                                ELSE termination_condition
    /\ left_at' = IF AnyTerminationCriterionMet THEN "check1" ELSE left_at
    /\ pc' = IF AnyTerminationCriterionMet THEN "results" ELSE "fix"
    /\ UNCHANGED <<setup_state, ledger>>
    /\ UNCHANGED <<objective_state, callback_dual, contset, initializer>>
    /\ UNCHANGED <<config, counters, bounds_state, master_state, fix_state,
                   flags, results_produced, transfers, orig_vals, history,
                   sub_solution, incumbent, time_up>>
    /\ twin' = TwinNext

\* ------------------------------------------------------- fixing protocol
\* fix_master_solution_in_subproblem(..., make_subproblem_continuous=
\* config.force_subproblem_nlp): which subproblem variables the block fixes.
FixedByProtocol ==
    BoolVars \cup (IF force_subproblem_nlp THEN DiscVars ELSE {})

\* Entry of the scoped block: the chosen variables become fixed.
FixedOnEntry(f) == [v \in SubVars |-> IF v \in FixedByProtocol THEN TRUE
                                      ELSE f[v]]

\* Release of the scoped block: the flags saved on entry come back.
ReleasedFixing == saved_fixed

\* Variant: fix / solve / unfix in sequence, no release when the body raises.
FixedWithoutGuaranteedRelease(raised) ==
    IF raised THEN sub_fixed ELSE ReleasedFixing

\* The with statement around the subproblem solve: leaving the block, by
\* falling off its end or by an exception (raised), runs the release.
FixedAfterWithBlock(raised) == ReleasedFixing

\* with fix_master_solution_in_subproblem(...):   (entry)
FixMasterSolution ==
    /\ pc = "fix"
    /\ saved_fixed' = sub_fixed
    /\ sub_fixed' = FixedOnEntry(sub_fixed)
    /\ fix_active' = TRUE
    /\ fixed_from' = master_sol.iter
    /\ events' = Append(events, "fix")
    /\ fixed_before' = sub_fixed
    /\ tried' = tried \cup {master_sol.combo}
    /\ recurred' = (recurred \/ master_sol.combo \in tried)
    /\ pc' = "nlp"
    /\ UNCHANGED <<setup_state, raised_in, error_kind, primal_from,
                   captured_fixed>>
    /\ UNCHANGED <<objective_state, callback_dual, contset, initializer>>
    /\ UNCHANGED <<config, counters, bounds_state, master_state, flags,
                   outcome, master_solves, nlp_solves, callbacks,
                   sub_solution, incumbent, time_up>>
    /\ twin' = TwinNext

\* The state an exception inside the with block leaves behind.
AbortInsideBlock ==
    /\ sub_fixed' = FixedAfterWithBlock(TRUE)
    /\ fix_active' = FALSE
    /\ fixed_from' = 0
    /\ pc' = "error"

\* nlp_feasible = solve_subproblem(subproblem_util_block, config, timing)
SolveSubproblem ==
    /\ pc = "nlp"
    /\ \E feasible \in BOOLEAN, v \in Vals :
          /\ nlp_feasible' = feasible
          /\ sub_solution' = [iter |-> master_iteration, obj |-> v]
    /\ nlp_iteration' = nlp_iteration + 1
    /\ nlp_solves' = nlp_solves + 1
    /\ time_up' \in ClockAfter
    /\ events' = Append(events, "nlp")
    /\ pc' = "accept"
    /\ UNCHANGED <<setup_state, ledger>>
    /\ UNCHANGED <<objective_state, callback_dual, contset, initializer>>
    /\ UNCHANGED <<config, master_iteration, mip_iteration, bounds_state,
                   master_state, fix_state, mip_feasible, primal_improved,
                   added, outcome, master_solves, callbacks, fixed_before,
                   incumbent>>
    /\ twin' = TwinNext

\* solve_subproblem raises inside the with block.
SolveSubproblemRaises ==
    /\ pc = "nlp"
    /\ AbortInsideBlock
    /\ time_up' \in ClockAfter
    /\ raised_in' = "nlp"
    /\ error_kind' = "SolverError"
    /\ UNCHANGED <<setup_state, tried, recurred, primal_from, captured_fixed>>
    /\ UNCHANGED <<objective_state, callback_dual, contset, initializer>>
    /\ UNCHANGED <<config, counters, bounds_state, master_state,
                   saved_fixed, flags, outcome, history, sub_solution,
                   incumbent>>
    /\ twin' = TwinNext

\* Variant: the feasibility test is dropped.
SubproblemAlwaysAccepted == TRUE

\* if nlp_feasible:
SubproblemAccepted == nlp_feasible

\* new_primal = value(subproblem_obj.expr)
NewPrimal == sub_solution.obj

\* Variant: the incumbent is overwritten by every feasible subproblem.
IncumbentAlwaysReplaced(improved) == sub_solution

\* if primal_improved: self.update_incumbent(subproblem_util_block)
IncumbentAfterUpdate(improved) == IF improved THEN sub_solution ELSE incumbent

\* Variant: the improving solution is written straight onto the original
\* model's util block instead of the incumbent store.
ProcessFeasibleOnOriginal ==
    /\ pc = "accept"
    /\ nlp_feasible
    /\ primal_improved' = PrimalImproved(sub_solution.obj, primal_bound)
    /\ primal_bound' = PrimalAfterUpdate(sub_solution.obj, primal_bound)
    /\ orig_vals' = IF PrimalImproved(sub_solution.obj, primal_bound)
                    THEN sub_solution ELSE orig_vals
    /\ pc' = "cuts"
    /\ UNCHANGED <<setup_state, ledger>>
    /\ UNCHANGED <<objective_state, callback_dual, contset, initializer>>
    /\ UNCHANGED <<config, counters, dual_bound, master_state, fix_state,
                   mip_feasible, nlp_feasible, added, termination_condition,
                   results_produced, transfers, left_at, history,
                   sub_solution, incumbent, time_up>>
    /\ twin' = TwinNext

\* Feasible subproblem: update the primal bound, and the incumbent if the
\* bound tracker reports an improvement.
ProcessFeasible ==
    /\ pc = "accept"
    /\ SubproblemAccepted
    /\ primal_improved' = PrimalImproved(NewPrimal, primal_bound)
    /\ primal_bound' = PrimalAfterUpdate(NewPrimal, primal_bound)
    /\ incumbent' = IncumbentAfterUpdate(
                        PrimalImproved(NewPrimal, primal_bound))
    /\ primal_from' = IF PrimalImproved(NewPrimal, primal_bound)
                      THEN sub_solution.iter ELSE primal_from
    /\ captured_fixed' = IF incumbent' # incumbent THEN fix_active
                         ELSE captured_fixed
    /\ pc' = "cuts"
    /\ UNCHANGED <<setup_state, raised_in, error_kind, tried, recurred>>
    /\ UNCHANGED <<objective_state, callback_dual, contset, initializer>>
    /\ UNCHANGED <<config, counters, dual_bound, master_state, fix_state,
                   mip_feasible, nlp_feasible, added, outcome, history,
                   sub_solution, time_up>>
    /\ twin' = TwinNext

\* update_incumbent raises, after the bound tracker stored the new bound.
UpdateIncumbentRaises ==
    /\ pc = "accept"
    /\ SubproblemAccepted
    /\ PrimalImproved(NewPrimal, primal_bound)
    /\ primal_improved' = TRUE
    /\ primal_bound' = PrimalAfterUpdate(NewPrimal, primal_bound)
    /\ primal_from' = sub_solution.iter
    /\ AbortInsideBlock
    /\ raised_in' = "incumbent"
    /\ error_kind' = "Exception"
    /\ UNCHANGED <<setup_state, tried, recurred, captured_fixed>>
    /\ UNCHANGED <<objective_state, callback_dual, contset, initializer>>
    /\ UNCHANGED <<config, counters, dual_bound, master_state, saved_fixed,
                   mip_feasible, nlp_feasible, added, outcome, history,
                   sub_solution, incumbent, time_up>>
    /\ twin' = TwinNext

\* Variant: the cut generation sits outside the feasibility test.
SkipInfeasibleIntoCuts ==
    /\ pc = "accept"
    /\ ~SubproblemAccepted
    /\ pc' = "cuts"
    /\ UNCHANGED <<setup_state, ledger>>
    /\ UNCHANGED <<objective_state, callback_dual, contset, initializer>>
    /\ UNCHANGED <<config, counters, bounds_state, master_state, fix_state,
                   flags, outcome, history, sub_solution, incumbent, time_up>>
    /\ twin' = TwinNext

\* Not feasible: nothing of the block's body runs.
SkipInfeasible ==
    /\ pc = "accept"
    /\ ~SubproblemAccepted
    /\ pc' = "release"
    /\ UNCHANGED <<setup_state, ledger>>
    /\ UNCHANGED <<objective_state, callback_dual, contset, initializer>>
    /\ UNCHANGED <<config, counters, bounds_state, master_state, fix_state,
                   flags, outcome, history, sub_solution, incumbent, time_up>>
    /\ twin' = TwinNext

\* Variant: the cut generator rebuilds the cut list from the current point.
GenerateCutsReplacing ==
    /\ pc = "cuts"
    /\ oa_cuts' = {sub_solution.iter}
    /\ events' = Append(events, "cuts")
    /\ pc' = "release"
    /\ UNCHANGED <<setup_state, ledger>>
    /\ UNCHANGED <<objective_state, callback_dual, contset, initializer>>
    /\ UNCHANGED <<config, counters, bounds_state, master_sol, master_obj,
                   no_good_cuts, slacks_in_obj, fix_state, flags, outcome,
                   master_solves, nlp_solves, callbacks, fixed_before,
                   sub_solution, incumbent, time_up>>
    /\ twin' = TwinNext

\* add_outer_approximation_cuts (LOA) / add_affine_cuts (GLOA): cuts from
\* this iteration's subproblem solution are appended to the master.
GenerateCuts ==
    /\ pc = "cuts"
    /\ oa_cuts' = oa_cuts \cup {sub_solution.iter}
    /\ events' = Append(events, "cuts")
    /\ pc' = "release"
    /\ UNCHANGED <<setup_state, ledger>>
    /\ UNCHANGED <<objective_state, callback_dual, contset, initializer>>
    /\ UNCHANGED <<config, counters, bounds_state, master_sol, master_obj,
                   no_good_cuts, slacks_in_obj, fix_state, flags, outcome,
                   master_solves, nlp_solves, callbacks, fixed_before,
                   sub_solution, incumbent, time_up>>
    /\ twin' = TwinNext

\* The cut generator raises inside the with block.
GenerateCutsRaises ==
    /\ pc = "cuts"
    /\ AbortInsideBlock
    /\ raised_in' = "cuts"
    /\ error_kind' = "Exception"
    /\ UNCHANGED <<setup_state, tried, recurred, primal_from, captured_fixed>>
    /\ UNCHANGED <<objective_state, callback_dual, contset, initializer>>
    /\ UNCHANGED <<config, counters, bounds_state, master_state,
                   saved_fixed, flags, outcome, history, sub_solution,
                   incumbent, time_up>>
    /\ twin' = TwinNext

\* The with block ends normally.
ReleaseFixing ==
    /\ pc = "release"
    /\ sub_fixed' = FixedAfterWithBlock(FALSE)
    /\ fix_active' = FALSE
    /\ fixed_from' = 0
    /\ events' = Append(events, "release")
    /\ pc' = "nogood"
    /\ UNCHANGED <<setup_state, ledger>>
    /\ UNCHANGED <<objective_state, callback_dual, contset, initializer>>
    /\ UNCHANGED <<config, counters, bounds_state, master_state,
                   saved_fixed, flags, outcome, master_solves, nlp_solves,
                   callbacks, fixed_before, sub_solution, incumbent, time_up>>
    /\ twin' = TwinNext

\* ------------------------------------------------------------ no-good cut
\* add_no_good_cut: the answers it can give for the master's combination.
\* With a single combination there is no discrete decision to cut on; when
\* the cut would leave the master empty the space is exhausted.
NoGoodCutAnswers ==
    IF Admitted \ {master_sol.combo} # {} THEN {TRUE}
    ELSE IF n_combos = 1 THEN {FALSE}
    ELSE BOOLEAN

\* Variant: a refused no-good cut leaves the dual bound as it is.
DualUntouchedAfterNoGoodCut(a, dual) == dual

\* if not added: self._update_dual_bound_to_infeasible(logger)
DualAfterNoGoodCut(a, dual) == IF ~a THEN DualBoundToInfeasible ELSE dual

\* Variant: a repeated cut on an excluded combination shifts to the next one.
NoGoodCutsAfterShifting(cuts, c, a) ==
    IF ~a THEN cuts
    ELSE IF c \in cuts THEN cuts \cup {(c % n_combos) + 1}
    ELSE cuts \cup {c}

\* add_no_good_cut: an added cut forbids exactly the combination c.
NoGoodCutsAfter(cuts, c, a) == IF a THEN cuts \cup {c} ELSE cuts

\* Variant: the block reports the cut as added without storing it.
AddNoGoodCutNotStored ==
    /\ pc = "nogood"
    /\ added' = TRUE
    /\ events' = Append(events, "nogood")
    /\ pc' = "check2"
    /\ UNCHANGED <<setup_state, ledger>>
    /\ UNCHANGED <<objective_state, callback_dual, contset, initializer>>
    /\ UNCHANGED <<config, counters, bounds_state, master_state, fix_state,
                   mip_feasible, nlp_feasible, primal_improved, outcome,
                   master_solves, nlp_solves, callbacks, fixed_before,
                   sub_solution, incumbent, time_up>>
    /\ twin' = TwinNext

\* added = add_no_good_cut(master_util_block, config), and the dual bound
\* update that depends on its answer a.
NoGoodCutCall(a) ==
    /\ added' = a
    /\ no_good_cuts' = NoGoodCutsAfter(no_good_cuts, master_sol.combo, a)
    /\ dual_bound' = DualAfterNoGoodCut(a, dual_bound)

\* The "integer cut generation" block.
AddNoGoodCut ==
    /\ pc = "nogood"
    /\ \E a \in NoGoodCutAnswers : NoGoodCutCall(a)
    /\ events' = Append(events, "nogood")
    /\ pc' = "check2"
    /\ UNCHANGED <<setup_state, ledger>>
    /\ UNCHANGED <<objective_state, callback_dual, contset, initializer>>
    /\ UNCHANGED <<config, counters, primal_bound, master_sol, master_obj,
                   oa_cuts, slacks_in_obj, fix_state, mip_feasible,
                   nlp_feasible, primal_improved, outcome, master_solves,
                   nlp_solves, callbacks, fixed_before, sub_solution,
                   incumbent, time_up>>
    /\ twin' = TwinNext

\* if self.any_termination_criterion_met(config): break   (end of the body)
Checkpoint2 ==
    /\ pc = "check2"
    /\ termination_condition' = IF AnyTerminationCriterionMet
                                THEN TerminationReason
                                ELSE termination_condition
    /\ left_at' = IF AnyTerminationCriterionMet THEN "check2" ELSE left_at
    /\ pc' = IF AnyTerminationCriterionMet THEN "results" ELSE "while"
    /\ UNCHANGED <<setup_state, ledger>>
    /\ UNCHANGED <<objective_state, callback_dual, contset, initializer>>
    /\ UNCHANGED <<config, counters, bounds_state, master_state, fix_state,
                   flags, results_produced, transfers, orig_vals, history,
                   sub_solution, incumbent, time_up>>
    /\ twin' = TwinNext

\* ------------------------------------------------------------ after the loop
\* self._get_final_pyomo_results_object()
ProduceResults ==
    /\ pc = "results"
    /\ results_produced' = TRUE
    /\ pc' = "gate"
    /\ UNCHANGED <<setup_state, ledger>>
    /\ UNCHANGED <<objective_state, callback_dual, contset, initializer>>
    /\ UNCHANGED <<config, counters, bounds_state, master_state, fix_state,
                   flags, termination_condition, transfers, left_at,
                   orig_vals, history, sub_solution, incumbent, time_up>>
    /\ twin' = TwinNext

\* Variant: the transfer is not gated on the termination condition.
TransferAlways == TRUE

\* if not termination_condition == TerminationCondition.infeasible
TransferGate == termination_condition # "infeasible"

\* Variant: an empty incumbent is written onto the original model as well.
ValuesAfterTransferFromEmpty ==
    IF incumbent.iter # 0 THEN incumbent ELSE [iter |-> 0, obj |-> Infinity]

\* _transfer_incumbent_to_original_model: the incumbent's values are
\* written onto the original model (nothing to write without an incumbent).
ValuesAfterTransfer == IF incumbent.iter # 0 THEN incumbent ELSE orig_vals

TransferIncumbent ==
    /\ pc = "gate"
    /\ TransferGate
    /\ transfers' = transfers + 1
    /\ orig_vals' = ValuesAfterTransfer
    /\ pc' = "done"
    /\ UNCHANGED <<setup_state, ledger>>
    /\ UNCHANGED <<objective_state, callback_dual, contset, initializer>>
    /\ UNCHANGED <<config, counters, bounds_state, master_state, fix_state,
                   flags, termination_condition, results_produced, left_at,
                   history, sub_solution, incumbent, time_up>>
    /\ twin' = TwinNext

\* Infeasible: the results are returned without touching the original model.
ReturnWithoutTransfer ==
    /\ pc = "gate"
    /\ ~TransferGate
    /\ pc' = "done"
    /\ UNCHANGED <<setup_state, ledger>>
    /\ UNCHANGED <<objective_state, callback_dual, contset, initializer>>
    /\ UNCHANGED <<config, counters, bounds_state, master_state, fix_state,
                   flags, outcome, history, sub_solution, incumbent, time_up>>
    /\ twin' = TwinNext

Next ==
    \/ Setup
    \/ SetupFails
    \/ EnterIteration
    \/ ExitWhile
    \/ SolveMaster
    \/ SolveMasterRaises
    \/ Checkpoint1
    \/ FixMasterSolution
    \/ SolveSubproblem
    \/ SolveSubproblemRaises
    \/ ProcessFeasible
    \/ UpdateIncumbentRaises
    \/ SkipInfeasible
    \/ GenerateCuts
    \/ GenerateCutsRaises
    \/ ReleaseFixing
    \/ AddNoGoodCut
    \/ Checkpoint2
    \/ ProduceResults
    \/ TransferIncumbent
    \/ ReturnWithoutTransfer

Spec == Init /\ [][Next]_vars

\* The driver is one sequential program: as long as every call it makes
\* returns (or raises), its next statement is executed.
\* The configurations the termination runs start from: both drivers, every
\* iteration limit and number of combinations, models with and without an
\* objective, the smallest and the largest tolerance.
TerminationInit ==
    /\ Init
    /\ objective_sense = "minimize"
    /\ ~force_subproblem_nlp
    /\ bound_tolerance \in {0, MaxTol}

TerminationSpec == TerminationInit /\ [][Next]_vars /\ WF_vars(Next)

\* ------------------------------------------- the no-good cut, called twice
\* The integer cut block run twice in a row on one master solution: the
\* master holds any set of earlier no-good cuts that admits the combination
\* its solve returned.
NoGoodInit ==
    /\ alg \in Algorithms
    /\ iterlim = MaxIterLim
    /\ objective_sense \in Senses
    /\ bound_tolerance = 0
    /\ force_subproblem_nlp = FALSE
    /\ n_combos \in 1..MaxCombosRepeat
    /\ no_good_cuts \in SUBSET Combos(n_combos)
    /\ \E c \in Admitted : master_sol = [combo |-> c, iter |-> 1]
    /\ pc = "nogood_first"
    /\ master_iteration = 1
    /\ mip_iteration = 1
    /\ nlp_iteration = 1
    /\ dual_bound \in {InitialDual, 0}
    /\ primal_bound = InitialPrimal
    /\ mip_feasible = TRUE
    /\ nlp_feasible = FALSE
    /\ primal_improved = FALSE
    /\ added = FALSE
    /\ master_obj = 0
    /\ oa_cuts = {}
    /\ slacks_in_obj = {}
    /\ sub_fixed = [v \in SubVars |-> FALSE]
    /\ saved_fixed = sub_fixed
    /\ fix_active = FALSE
    /\ fixed_from = 0
    /\ sub_solution = NoSolution
    /\ incumbent = NoSolution
    /\ orig_vals = NoSolution
    /\ termination_condition = "none"
    /\ time_up = FALSE
    /\ results_produced = FALSE
    /\ transfers = 0
    /\ left_at = "none"
    /\ master_solves = 1
    /\ nlp_solves = 1
    /\ callbacks = 1
    /\ events = <<"master", "fix", "nlp", "release">>
    /\ fixed_before = sub_fixed
    /\ has_objective = TRUE
    /\ orig_setup_ops = SetupOpsOnOriginal
    /\ raised_in = "none"
    /\ error_kind = "none"
    /\ tried = {master_sol.combo}
    /\ recurred = FALSE
    /\ primal_from = 0
    /\ captured_fixed = FALSE
    /\ main_obj_active = (alg # "LOA")
    /\ penalty_sign = (IF alg = "LOA" THEN (IF IsMin THEN 1 ELSE 0 - 1) ELSE 0)
    /\ dual_from = DualSource
    /\ callback_dual = dual_bound
    /\ ContSetIdle
    /\ InitializerIdle
    /\ twin = TwinStart

\* What a call of the integer cut block leaves alone.
NoGoodFrame ==
    /\ events' = Append(events, "nogood")
    /\ UNCHANGED <<setup_state, ledger>>
    /\ UNCHANGED <<objective_state, callback_dual, contset, initializer>>
    /\ UNCHANGED <<config, counters, primal_bound, master_sol, master_obj,
                   oa_cuts, slacks_in_obj, fix_state, mip_feasible,
                   nlp_feasible, primal_improved, outcome, master_solves,
                   nlp_solves, callbacks, fixed_before, sub_solution,
                   incumbent, time_up>>
    /\ UNCHANGED twin

\* add_no_good_cut decides from the master alone: called again on a master
\* that its refused call left as it was, it refuses again.
NoGoodCutAnswersAgain == IF added THEN NoGoodCutAnswers ELSE {FALSE}

NoGoodFirstCall ==
    /\ pc = "nogood_first"
    /\ \E a \in NoGoodCutAnswers : NoGoodCutCall(a)
    /\ pc' = "nogood_second"
    /\ NoGoodFrame

NoGoodSecondCall ==
    /\ pc = "nogood_second"
    /\ \E a \in NoGoodCutAnswersAgain : NoGoodCutCall(a)
    /\ pc' = "nogood_twice"
    /\ NoGoodFrame

NoGoodNext ==
    \/ NoGoodFirstCall
    \/ NoGoodSecondCall

NoGoodSpec == NoGoodInit /\ [][NoGoodNext]_vars

\* ------------------------------------------------- no solve of the drivers
\* The drivers' state while only a ContinuousSet or an initializer is used.
LoopIdle ==
    /\ alg = "LOA"
    /\ iterlim = 0
    /\ objective_sense = "minimize"
    /\ bound_tolerance = 0
    /\ force_subproblem_nlp = FALSE
    /\ n_combos = 1
    /\ pc = "idle"
    /\ master_iteration = 0
    /\ mip_iteration = 0
    /\ nlp_iteration = 0
    /\ dual_bound = InitialDual
    /\ primal_bound = InitialPrimal
    /\ mip_feasible = FALSE
    /\ nlp_feasible = FALSE
    /\ primal_improved = FALSE
    /\ added = FALSE
    /\ master_sol = [combo |-> 0, iter |-> 0]
    /\ master_obj = 0
    /\ no_good_cuts = {}
    /\ oa_cuts = {}
    /\ slacks_in_obj = {}
    /\ sub_fixed = [v \in SubVars |-> FALSE]
    /\ saved_fixed = sub_fixed
    /\ fix_active = FALSE
    /\ fixed_from = 0
    /\ sub_solution = NoSolution
    /\ incumbent = NoSolution
    /\ orig_vals = NoSolution
    /\ termination_condition = "none"
    /\ time_up = FALSE
    /\ results_produced = FALSE
    /\ transfers = 0
    /\ left_at = "none"
    /\ master_solves = 0
    /\ nlp_solves = 0
    /\ callbacks = 0
    /\ events = <<>>
    /\ fixed_before = sub_fixed
    /\ has_objective = TRUE
    /\ orig_setup_ops = {}
    /\ raised_in = "none"
    /\ error_kind = "none"
    /\ tried = {}
    /\ recurred = FALSE
    /\ primal_from = 0
    /\ captured_fixed = FALSE
    /\ main_obj_active = TRUE
    /\ penalty_sign = 0
    /\ dual_from = "none"
    /\ callback_dual = InitialDual
    /\ twin = TwinStart

\* ------------------------------------------------- ContinuousSet (contset.py)
Coords == 0..MaxCoord
QueryPoints == (0 - 1)..(MaxCoord + 1)
NoTolerance == 0 - 1
Tolerances == {NoTolerance} \cup (0..MaxTolerance)
CollocationSchemes == {"LAGRANGE-RADAU", "LAGRANGE-LEGENDRE"}
Schemes == {"none", "BACKWARD Difference"} \cup CollocationSchemes

Value(x) == [kind |-> "value", val |-> x]
ReturnedNone == [kind |-> "None", val |-> 0]
Raised(e) == [kind |-> e, val |-> 0]

Abs(x) == IF x >= 0 THEN x ELSE 0 - x
Elements(q) == {q[i] : i \in 1..Len(q)}
SeqMax(q) == CHOOSE x \in Elements(q) : \A y \in Elements(q) : y <= x
SeqMin(q) == CHOOSE x \in Elements(q) : \A y \in Elements(q) : x <= y

\* sorted(...): the members in increasing order.
RECURSIVE Sorted(_)
Sorted(S) ==
    IF S = {} THEN <<>>
    ELSE LET m == CHOOSE x \in S : \A y \in S : x <= y
         IN <<m>> \o Sorted(S \ {m})

\* list.index(point): position of the first occurrence, counted from 0.
ListIndex(q, point) ==
    (CHOOSE i \in 1..Len(q) :
        q[i] = point /\ \A j \in 1..(i - 1) : q[j] # point) - 1

\* for i in q: if Test(i, point): return i   -- the first match in list order
FirstAbove(q, point) ==
    LET hits == {i \in 1..Len(q) : q[i] > point}
    IN IF hits = {} THEN ReturnedNone
       ELSE Value(q[CHOOSE i \in hits : \A j \in hits : i <= j])

\* rev_fe = list(q); rev_fe.reverse(); for i in rev_fe: if i < point: return i
FirstBelowReversed(q, point) ==
    LET hits == {i \in 1..Len(q) : q[i] < point}
    IN IF hits = {} THEN ReturnedNone
       ELSE Value(q[CHOOSE i \in hits : \A j \in hits : j <= i])

\* ContinuousSet.get_upper_element_boundary
get_upper_element_boundary(fe, point) ==
    IF point \in Elements(fe) THEN Value(point)
    ELSE IF point > SeqMax(fe) THEN Value(SeqMax(fe))
    ELSE FirstAbove(fe, point)

\* Variant: no special case for Radau collocation.
get_lower_element_boundary_plain(fe, scheme, point) ==
    IF point \in Elements(fe) THEN Value(point)
    ELSE IF point < SeqMin(fe) THEN Value(SeqMin(fe))
    ELSE FirstBelowReversed(fe, point)

\* ContinuousSet.get_lower_element_boundary
get_lower_element_boundary(fe, scheme, point) ==
    IF point \in Elements(fe)
    THEN IF scheme = "LAGRANGE-RADAU" /\ ListIndex(fe, point) # 0
         THEN Value(fe[(ListIndex(fe, point) - 1) + 1])
         ELSE Value(point)
    ELSE IF point < SeqMin(fe) THEN Value(SeqMin(fe))
    ELSE FirstBelowReversed(fe, point)

\* bisect.bisect_right(a, p, lo, hi) on the 1-based set a.
RECURSIVE bisect_right(_, _, _, _)
bisect_right(a, p, lo, hi) ==
    IF lo < hi
    THEN LET mid == (lo + hi) \div 2
         IN IF p < a[mid] THEN bisect_right(a, p, lo, mid)
            ELSE bisect_right(a, p, mid + 1, hi)
    ELSE lo

\* neighbors = dict((abs(p-self[j]), j) for j in [i-1, i]); delta =
\* min(neighbors); nearest_index = neighbors[delta]: with equal distances
\* the later pair replaces the earlier one under the same key.
NearestOfNeighbors(a, p, i) ==
    IF Abs(p - a[i - 1]) < Abs(p - a[i]) THEN i - 1 ELSE i

\* if delta < tol: return nearest_index   (else the method falls off its end)
WithinTolerance(delta, tol, nearest_index) ==
    IF tol = NoTolerance THEN Raised("TypeError")
    ELSE IF delta < tol THEN Value(nearest_index)
    ELSE ReturnedNone

\* ContinuousSet.find_nearest_index
find_nearest_index(a, p, tol) ==
    LET lo == 1
        hi == Len(a) + 1
        i == bisect_right(a, p, lo, hi)
    IN IF i = lo \/ i = hi
       THEN IF i \in 1..Len(a)
            THEN WithinTolerance(Abs(p - a[i]), tol, i)
            ELSE Raised("IndexError")
       ELSE WithinTolerance(Abs(p - a[NearestOfNeighbors(a, p, i)]), tol,
                            NearestOfNeighbors(a, p, i))

\* A constructed set: at least two members, the finite-element points are
\* members and include both ends; without collocation every member is a
\* finite-element point.
ContSetInit ==
    /\ LoopIdle
    /\ InitializerIdle
    /\ \E P \in SUBSET Coords, F \in SUBSET Coords :
          /\ Cardinality(P) >= 2
          /\ F \subseteq P
          /\ \A x \in P : (\A y \in P : x <= y) => x \in F
          /\ \A x \in P : (\A y \in P : y <= x) => x \in F
          /\ cs_points = Sorted(P)
          /\ cs_fe = Sorted(F)
    /\ cs_scheme \in Schemes
    /\ cs_scheme \notin CollocationSchemes => cs_fe = cs_points
    /\ cs_call = NoCall
    /\ cs_result = NoResult
    /\ cs_constructed = TRUE
    /\ cs_declared = {}
    /\ cs_lb = SeqMin(cs_points)
    /\ cs_ub = SeqMax(cs_points)
    /\ cs_kind = "numeric"
    /\ cs_constructs = 1

ContSetFrame ==
    UNCHANGED <<loop_vars, initializer, cs_points, cs_fe, cs_scheme,
                cs_constructed, cs_declared, cs_lb, cs_ub, cs_kind,
                cs_constructs>>

CallGetUpperElementBoundary ==
    /\ \E point \in QueryPoints :
          /\ cs_call' = [op |-> "upper", point |-> point, tol |-> 0]
          /\ cs_result' = get_upper_element_boundary(cs_fe, point)
    /\ ContSetFrame

CallGetLowerElementBoundary ==
    /\ \E point \in QueryPoints :
          /\ cs_call' = [op |-> "lower", point |-> point, tol |-> 0]
          /\ cs_result' = get_lower_element_boundary(cs_fe, cs_scheme, point)
    /\ ContSetFrame

CallFindNearestIndex ==
    /\ \E p \in QueryPoints, tol \in Tolerances :
          /\ cs_call' = [op |-> "nearest", point |-> p, tol |-> tol]
          /\ cs_result' = find_nearest_index(cs_points, p, tol)
    /\ ContSetFrame

ContSetNext ==
    \/ CallGetUpperElementBoundary
    \/ CallGetLowerElementBoundary
    \/ CallFindNearestIndex

ContSetSpec == ContSetInit /\ [][ContSetNext]_vars

\* ---------------------------------------------- ContinuousSet.construct
\* A declared bound is a coordinate, or None (NoBound).
DeclaredBounds == Coords \cup {NoBound}
MemberKinds == {"numeric", "tuple", "string"}

\* "bounds ... will be used to bound the points added to the ContinuousSet
\* through the 'initialize' argument": the declared values the domain admits.
WithinDomain(x, lb, ub) ==
    /\ (lb # NoBound => lb <= x)
    /\ (ub # NoBound => x <= ub)

\* Variant: the declared bounds are not added to the set.
MembersWithoutBounds(members, lb, ub) == members

\* for bnd in self.domain.bounds():
\*     if bnd is not None and bnd not in self: self.add(bnd)
MembersWithDeclaredBounds(members, lb, ub) ==
    members \cup (IF lb # NoBound THEN {lb} ELSE {})
            \cup (IF ub # NoBound THEN {ub} ELSE {})

\* None in self.bounds(): a finite set of numbers has its smallest and
\* largest member as bounds, an empty one has none.
BoundsHaveNone(members) == members = {}

\* self._fe = sorted(self)
FiniteElementsAfterConstruct(members) == Sorted(members)

\* What construct does to an unconstructed set: the members the set ends
\* with, the finite-element list, and what the call returns or raises.
\* super().construct loads the declared values and marks the set as
\* constructed; whether the mark stays when it rejects a value outside the
\* domain is its own matter (flag_open).
ConstructOutcome(declared, lb, ub, kind, fe) ==
    IF \E x \in declared : ~WithinDomain(x, lb, ub)
    THEN [members |-> {x \in declared : WithinDomain(x, lb, ub)},
          fe |-> fe, result |-> Raised("ValueError"), flag_open |-> TRUE]
    ELSE IF kind # "numeric" /\ declared # {}
    THEN [members |-> declared,
          fe |-> fe, result |-> Raised("ValueError"), flag_open |-> FALSE]
    ELSE IF BoundsHaveNone(MembersWithDeclaredBounds(declared, lb, ub))
    THEN [members |-> MembersWithDeclaredBounds(declared, lb, ub),
          fe |-> fe, result |-> Raised("ValueError"), flag_open |-> FALSE]
    ELSE IF Cardinality(MembersWithDeclaredBounds(declared, lb, ub)) < 2
    THEN [members |-> MembersWithDeclaredBounds(declared, lb, ub),
          fe |-> fe, result |-> Raised("ValueError"), flag_open |-> FALSE]
    ELSE [members |-> MembersWithDeclaredBounds(declared, lb, ub),
          fe |-> FiniteElementsAfterConstruct(
                     MembersWithDeclaredBounds(declared, lb, ub)),
          result |-> ReturnedNone, flag_open |-> FALSE]

\* ContinuousSet.__init__: no members yet, _fe = [], not constructed.
ConstructInit ==
    /\ LoopIdle
    /\ InitializerIdle
    /\ cs_points = <<>>
    /\ cs_fe = <<>>
    /\ cs_scheme = "none"
    /\ cs_call = NoCall
    /\ cs_result = NoResult
    /\ cs_constructed = FALSE
    /\ cs_declared \in SUBSET Coords
    /\ cs_lb \in DeclaredBounds
    /\ cs_ub \in DeclaredBounds
    /\ (cs_lb # NoBound /\ cs_ub # NoBound) => cs_lb <= cs_ub
    /\ cs_kind \in MemberKinds
    /\ cs_constructs = 0

\* ContinuousSet.construct
Construct ==
    /\ cs_constructs < MaxConstructs
    /\ cs_constructs' = cs_constructs + 1
    /\ cs_call' = [op |-> "construct", point |-> 0, tol |-> 0]
    /\ IF cs_constructed
       THEN /\ cs_result' = ReturnedNone
            /\ UNCHANGED <<cs_points, cs_fe, cs_constructed>>
       ELSE LET out == ConstructOutcome(cs_declared, cs_lb, cs_ub, cs_kind,
                                        cs_fe)
            IN /\ cs_points' = Sorted(out.members)
               /\ cs_fe' = out.fe
               /\ cs_result' = out.result
               /\ cs_constructed' \in (IF out.flag_open THEN BOOLEAN
                                        ELSE {TRUE})
    /\ UNCHANGED <<loop_vars, initializer, cs_scheme, cs_declared, cs_lb,
                   cs_ub, cs_kind>>

ConstructNext == Construct

ConstructSpec == ConstructInit /\ [][ConstructNext]_vars

\* ------------------------------------ counted-call initializer (initializer.py)
\* An index is a tuple of some length, or a single non-tuple value.
Indexes == {[tuple |-> FALSE, len |-> 1]}
               \cup {[tuple |-> TRUE, len |-> k] : k \in 0..MaxIdxLen}
RuleReturns == {"None", "value", "End"}

\* _len = len(idx) if idx.__class__ is tuple else 1
IndexLength(idx) == IF idx.tuple THEN idx.len ELSE 1

\* CountedCallInitializer.__init__: _is_counted_rule = None, and True for a
\* scalar component.
FlagAtConstruction(scalar) == IF scalar THEN "True" ELSE "None"

\* Variant: the argument count is inspected on every call.
FlagRedecided(flag, idx) ==
    IF ci_scalar THEN "True"
    ELSE IF IndexLength(idx) + 2 = ci_nargs THEN "True" ELSE "False"

\* CountedCallInitializer.__call__: a decided flag is kept; an undecided
\* one is set from the rule's argument count and the index length.
FlagAfterCall(flag, idx) ==
    IF flag = "None"
    THEN IF IndexLength(idx) + 2 = ci_nargs THEN "True" ELSE "False"
    ELSE flag

\* What __call__ answers with: a CountedCallGenerator, or the plain
\* indexed call of the rule.
AnswerKind(flag) == IF flag = "True" THEN "counted" ELSE "plain"

\* Variant: the count is passed first and incremented afterwards.
PassedCountBeforeIncrement(count) == count

\* CountedCallGenerator.__next__: self._count += 1, then the rule is called
\* with self._count.
PassedCount(count) == count + 1

\* CountedCallGenerator._filter: None is answered with a ValueError.
FilterOutcome(ret) == IF ret = "None" THEN "ValueError" ELSE ret

InitializerInit ==
    /\ LoopIdle
    /\ ContSetIdle
    /\ ci_scalar \in BOOLEAN
    /\ ci_nargs \in 0..MaxArgs
    /\ ci_flag = FlagAtConstruction(ci_scalar)
    /\ ci_calls = 0
    /\ ci_first_len = 0
    /\ ci_answers = {}
    /\ gen_active = FALSE
    /\ gen_count = 0
    /\ gen_passed = <<>>

\* CountedCallInitializer.__call__(parent, idx)
CallInitializer ==
    /\ ci_calls < MaxCalls
    /\ \E idx \in Indexes :
          /\ ~ci_scalar \/ ~idx.tuple
          /\ ci_flag' = FlagAfterCall(ci_flag, idx)
          /\ ci_first_len' = IF ci_calls = 0 THEN IndexLength(idx)
                             ELSE ci_first_len
    /\ ci_calls' = ci_calls + 1
    /\ ci_answers' = ci_answers \cup {AnswerKind(ci_flag')}
    /\ gen_active' = (gen_active \/ AnswerKind(ci_flag') = "counted")
    /\ gen_count' = IF AnswerKind(ci_flag') = "counted" THEN 0 ELSE gen_count
    /\ gen_passed' = IF AnswerKind(ci_flag') = "counted" THEN <<>>
                     ELSE gen_passed
    /\ UNCHANGED <<loop_vars, contset, ci_scalar, ci_nargs>>

\* CountedCallGenerator.__next__()
NextOfGenerator ==
    /\ gen_active
    /\ gen_count < MaxCalls
    /\ gen_count' = gen_count + 1
    /\ \E ret \in RuleReturns :
          gen_passed' = Append(gen_passed,
                               [count |-> PassedCount(gen_count),
                                outcome |-> FilterOutcome(ret)])
    /\ UNCHANGED <<loop_vars, contset, ci_scalar, ci_nargs, ci_flag,
                   ci_calls, ci_first_len, ci_answers, gen_active>>

InitializerNext ==
    \/ CallInitializer
    \/ NextOfGenerator

InitializerSpec == InitializerInit /\ [][InitializerNext]_vars

\* ---------------------------------------------------------------- helpers
TerminalReasons == {"converged", "infeasible", "iteration_limit", "time_limit"}
Returned == pc = "done"
LoopLeft == pc \in {"results", "gate", "done"}
LastEvent == IF events = <<>> THEN "none" ELSE events[Len(events)]
IsPrefix(s, t) ==
    /\ Len(s) <= Len(t)
    /\ \A i \in 1..Len(s) : s[i] = t[i]
\* The current iteration's master solve has returned.
MasterSolvedThisIteration == events # <<>> /\ events[1] = "master"

\* ================================================================== C1
\* C1 (as stated): in every reachable state the master-iteration counter is
\* at most iterlim and the number of master solves performed so far equals
\* the counter.
C1_CounterEqualsSolvesEverywhere ==
    /\ master_iteration <= iterlim
    /\ master_solves = master_iteration

\* C1 (amended): in every reachable state the master-iteration counter is at
\* most iterlim; the number of master solves performed equals the counter
\* once the iteration's master solve has returned, and is one less than the
\* counter from the increment until then (also when that solve raises).
C1_CounterBoundedSolvesFollow ==
    /\ master_iteration <= iterlim
    /\ master_solves = IF master_iteration > 0 /\ ~MasterSolvedThisIteration
                       THEN master_iteration - 1
                       ELSE master_iteration

\* The last iteration the limit allows has started and its solve is pending.
C1_Witness ==
    /\ pc = "master"
    /\ iterlim > 1
    /\ master_iteration = iterlim
    /\ master_solves = iterlim - 1

\* ================================================================== C2
\* C2: whenever solve returns a results object, exactly one of the reasons
\* converged, infeasible, iteration-limit reached, time-limit reached is the
\* recorded termination condition, also when the loop is left through its
\* while condition.
C2_OneReasonWhenReturned ==
    results_produced => termination_condition \in TerminalReasons

\* ================================================================== C3
\* C3: the dual bound is monotone over the whole solve (never decreasing for
\* minimization, never increasing for maximization), also when it is forced
\* to the infeasible sentinel, and a feasible master solve whose objective
\* does not tighten the stored dual bound leaves it unchanged.
C3_DualBoundMonotone ==
    [][ /\ IF IsMin THEN dual_bound' >= dual_bound
                    ELSE dual_bound' <= dual_bound
        /\ (/\ pc = "master"
            /\ pc' = "check1"
            /\ mip_feasible'
            /\ IF IsMin THEN master_obj' <= dual_bound
                        ELSE master_obj' >= dual_bound)
           => dual_bound' = dual_bound ]_vars

\* A feasible master solve returned an objective strictly worse than the
\* dual bound stored by an earlier iteration.
C3_Witness ==
    /\ pc = "check1"
    /\ mip_feasible
    /\ master_iteration > 1
    /\ IF IsMin THEN master_obj < dual_bound ELSE master_obj > dual_bound

\* ================================================================== C4
\* The subproblem's objective is no strict improvement beyond the tolerance
\* over a primal bound already stored.
C4_NoImprovementBeyondTolerance ==
    /\ primal_bound # InitialPrimal
    /\ IF IsMin THEN sub_solution.obj >= primal_bound - bound_tolerance
                ELSE sub_solution.obj <= primal_bound + bound_tolerance

\* C4: the primal bound is monotone over the whole solve (never increasing
\* for minimization, never decreasing for maximization); a feasible
\* subproblem whose objective is no strict improvement beyond the tolerance
\* leaves it unchanged, and an infeasible subproblem never changes it.
C4_PrimalBoundMonotone ==
    [][ /\ IF IsMin THEN primal_bound' <= primal_bound
                    ELSE primal_bound' >= primal_bound
        /\ (pc = "accept" /\ nlp_feasible /\ C4_NoImprovementBeyondTolerance)
           => primal_bound' = primal_bound
        /\ (pc = "accept" /\ ~nlp_feasible)
           => primal_bound' = primal_bound ]_vars

\* A feasible subproblem strictly better than the stored primal bound, but
\* not beyond the tolerance, was processed and the bound kept.
C4_Witness ==
    /\ pc = "cuts"
    /\ nlp_feasible
    /\ ~primal_improved
    /\ bound_tolerance > 0
    /\ IF IsMin THEN sub_solution.obj < primal_bound
                ELSE sub_solution.obj > primal_bound

\* ================================================================== C5
\* C5: fixing round trip: whenever the driver is outside the scoped fixing
\* block, on every exit path of the last block (normal return with feasible
\* or infeasible subproblem, exception from the subproblem solve, from the
\* incumbent update or from cut generation), the fixed flag of every
\* subproblem variable equals its flag right before that block.
C5_FixingRoundTrip ==
    ~fix_active => sub_fixed = fixed_before

\* Cut generation raised inside a block that had fixed a variable which was
\* free before; the flags are back.
C5_Witness ==
    /\ pc = "error"
    /\ LastEvent = "nlp"
    /\ nlp_feasible
    /\ primal_improved
    /\ incumbent.iter = master_iteration
    /\ \E v \in FixedByProtocol : ~sub_fixed[v]

\* ================================================================== C6
\* The order of one iteration's events, with and without cut generation.
C6_OrderFeasible == <<"master", "fix", "nlp", "cuts", "release", "nogood">>
C6_OrderInfeasible == <<"master", "fix", "nlp", "release", "nogood">>

\* C6: within every master iteration the events occur in the order master
\* solve, fixing, subproblem solve, (if feasible) cut generation from that
\* subproblem solution, release, no-good cut, and the next master solve
\* comes only after them; no master solve starts while the fixing of an
\* earlier iteration is in place, and the subproblem is solved with the
\* discrete values of the master solve of the same iteration.
C6_StrictOrder ==
    /\ IsPrefix(events, C6_OrderFeasible)
       \/ IsPrefix(events, C6_OrderInfeasible)
    /\ (\E i \in 1..Len(events) : events[i] = "cuts")
       => (nlp_feasible /\ sub_solution.iter = master_iteration
           /\ master_iteration \in oa_cuts)
    /\ pc = "master" => (events = <<>> /\ ~fix_active /\ fixed_from = 0)
    /\ (pc = "while" /\ master_iteration > 0) => LastEvent = "nogood"
    /\ pc \in {"nlp", "accept", "cuts", "release"}
       => (/\ fix_active
           /\ fixed_from = master_iteration
           /\ master_sol.iter = master_iteration
           /\ mip_feasible)
    /\ pc \in {"accept", "cuts", "release"}
       => sub_solution.iter = master_iteration

\* A second iteration ran through all six events.
C6_Witness ==
    /\ pc = "check2"
    /\ master_iteration = 2
    /\ events = C6_OrderFeasible

\* ================================================================== C7
\* C7: the driver leaves the loop only at one of the two checkpoints of an
\* iteration, never through the while condition, with one of the four
\* terminal states recorded; after that no master solve, subproblem solve or
\* cut generation happens.
C7_LeavesOnlyAtCheckpoints ==
    LoopLeft => (/\ left_at \in {"check1", "check2"}
                 /\ termination_condition \in TerminalReasons)

C9_Exhausted == LastEvent = "nogood" /\ ~added

\* C9: when the no-good cut generator returns false, the dual bound is the
\* infeasible sentinel at the second checkpoint of that iteration, the loop
\* stops there with no further master solve, and the termination condition
\* is infeasible when no feasible subproblem was ever found.
C9_ExhaustedStops ==
    C9_Exhausted
    => (/\ dual_bound = InfeasibleSentinel
        /\ pc \in {"check2", "results", "gate", "done"}
        /\ master_solves = master_iteration
        /\ pc # "check2"
           => (/\ left_at = "check2"
               /\ termination_condition \in {"infeasible", "converged"}
               /\ primal_bound = InitialPrimal
                  => termination_condition = "infeasible"))

\* Several combinations, none with a feasible subproblem: the generator
\* refused the last cut and the solve returned infeasible.
C9_Witness ==
    /\ C9_Exhausted
    /\ Returned
    /\ n_combos > 1
    /\ master_iteration < iterlim
    /\ termination_condition = "infeasible"

\* ================================================================= C10
\* C10: when the final termination condition is infeasible the transfer step
\* is not executed and the original model's variable values are those it
\* had before the solve; for every other termination condition the
\* incumbent's values are copied back exactly once, after the results object
\* was produced.
C10_TransferGated ==
    /\ transfers > 0 => (results_produced /\ Returned)
    /\ ~Returned => orig_vals = NoSolution
    /\ (Returned /\ termination_condition = "infeasible")
       => (transfers = 0 /\ orig_vals = NoSolution)
    /\ (Returned /\ termination_condition # "infeasible")
       => (/\ transfers = 1
           /\ incumbent.iter # 0 => orig_vals = incumbent)

\* A solve that tried a combination, found its subproblem infeasible and then
\* an infeasible master, returned infeasible.
C10_Witness ==
    /\ Returned
    /\ termination_condition = "infeasible"
    /\ nlp_solves > 0
    /\ left_at = "check1"

\* ================================================================== C11
\* The set of combinations handed to the subproblem has two members only
\* after two different iterations fixed two different combinations.
C11_HandedOver == pc \in {"nlp", "accept", "cuts", "release"}

\* C11: no discrete combination recurs. A feasible master solve never
\* returns a combination whose no-good cut was added in an earlier
\* iteration, and no combination is handed to the subproblem twice: the
\* combinations fixed in different iterations are pairwise distinct.
C11_NoCombinationRecurs ==
    /\ ~recurred
    /\ (MasterSolvedThisIteration /\ mip_feasible
           /\ master_sol.iter = master_iteration
           /\ pc \in {"check1", "fix"})
        => master_sol.combo \notin no_good_cuts
    /\ C11_HandedOver => master_sol.combo \in tried

\* Two iterations handed two different combinations to the subproblem, the
\* second one after the first one's no-good cut was added.
C11_Witness ==
    /\ C11_HandedOver
    /\ master_iteration = 2
    /\ Cardinality(tried) = 2
    /\ Cardinality(no_good_cuts) = 1
    /\ master_sol.combo \notin no_good_cuts

\* ================================================================== C12
\* The stored incumbent is the solution of the subproblem solve that
\* produced the stored primal bound.
C12_IncumbentIsOfStoredBound ==
    /\ incumbent.iter = primal_from
    /\ incumbent.obj = primal_bound

C13_CutsOnlyGrow ==
    [][/\ oa_cuts \subseteq oa_cuts'
       /\ no_good_cuts \subseteq no_good_cuts']_vars

\* Cuts of two iterations are in the master together: the first
\* iteration's cuts survived the second iteration.
C13_Witness ==
    /\ pc = "check2"
    /\ master_iteration = 2
    /\ oa_cuts = {1, 2}
    /\ Cardinality(no_good_cuts) = 2

\* ================================================================== C14
\* C14 (as stated): a solver error raised by the subproblem solve aborts
\* the solve (the driver stops right after the fixing, with no cut
\* generation, no no-good cut and no further master solve), reaches the
\* caller, and the solver's reported condition is recorded in the results.
C14_SubproblemErrorSurfacedAndRecorded ==
    raised_in = "nlp" =>
        /\ pc = "error"
        /\ LastEvent = "fix"
        /\ master_solves = master_iteration
        /\ error_kind = "SolverError"
        /\ results_produced
        /\ termination_condition # "none"

\* ================================================================== C15
\* The gap in the direction the termination check reads it, and its size,
\* in extended arithmetic: an infinite bound makes the gap infinite, and a
\* dual bound at the sentinel puts it beyond every primal bound.
C15_InfiniteGap == 2 * Infinity
C15_SignedGap ==
    IF dual_bound = InfeasibleSentinel THEN 0 - C15_InfiniteGap
    ELSE IF dual_bound = InitialDual \/ primal_bound = InitialPrimal
         THEN C15_InfiniteGap
    ELSE IF IsMin THEN primal_bound - dual_bound
    ELSE dual_bound - primal_bound
C15_GapMagnitude ==
    IF C15_SignedGap >= 0 THEN C15_SignedGap ELSE 0 - C15_SignedGap

\* C15 (as stated): until it has reached zero or the tolerance, the
\* magnitude of the gap |primal bound - dual bound| never increases from
\* one bound update to the next, also when the dual bound is set to the
\* infeasible sentinel.
C15_GapMagnitudeNeverIncreases ==
    [][C15_GapMagnitude > bound_tolerance
          => C15_GapMagnitude' <= C15_GapMagnitude]_vars

\* C15 (amended): the signed gap (primal - dual when minimising, dual -
\* primal when maximising) never increases from one bound update to the
\* next, also when the dual bound is set to the infeasible sentinel.
C15_SignedGapNeverIncreases ==
    [][C15_SignedGap' <= C15_SignedGap]_vars

\* An exhausted no-good cut set the dual bound to the sentinel while a
\* primal bound was stored: the dual bound lies beyond the primal bound.
C15_Witness ==
    /\ pc = "check2"
    /\ ~added
    /\ primal_bound # InitialPrimal
    /\ dual_bound = InfeasibleSentinel
    /\ C15_SignedGap < 0
    /\ C15_GapMagnitude > bound_tolerance

\* ================================================================== C16
\* C16 (as stated): nothing acts on the original model between the start
\* of the solve and the incumbent transfer: neither the setup nor a loop
\* step changes its components or its variable values.
C16_OriginalUntouchedUntilTransfer ==
    transfers = 0 => (orig_setup_ops = {} /\ orig_vals = NoSolution)

\* C16 (amended): the setup builds the utility block and its component
\* lists on the original model and runs the objective move on it, before
\* any copy is derived; from the loop head on nothing more is applied to
\* the original model, and its variable values are unchanged until the
\* transfer step.
C16_OnlySetupTouchesOriginal ==
    /\ orig_setup_ops \subseteq SetupOpsOnOriginal
    /\ (pc # "setup" /\ raised_in # "setup")
        => orig_setup_ops = SetupOpsOnOriginal
    /\ transfers = 0 => orig_vals = NoSolution

\* The loop has stored an incumbent on the copies while the original model
\* carries what the setup put on it and its values are untouched.
C16_Witness ==
    /\ pc = "release"
    /\ incumbent.iter # 0
    /\ oa_cuts # {}
    /\ transfers = 0
    /\ orig_vals = NoSolution
    /\ "add_util_block" \in orig_setup_ops
    /\ "move_nonlinear_objective_to_constraints" \in orig_setup_ops

C19_IncumbentRoundTrip ==
    (Returned /\ transfers = 1 /\ incumbent.iter # 0) =>
        /\ orig_vals = incumbent
        /\ orig_vals.iter = primal_from
        /\ orig_vals.obj = primal_bound
        /\ captured_fixed

\* The transferred incumbent is the first iteration's solution; a later
\* subproblem solve was feasible but did not improve on it.
C19_Witness ==
    /\ Returned
    /\ transfers = 1
    /\ orig_vals.iter = 1
    /\ sub_solution.iter = 2
    /\ nlp_feasible
    /\ ~primal_improved
    /\ orig_vals.obj = primal_bound

\* ================================================================== C20
\* C20: when a master solve is reported infeasible, the dual bound is set
\* to the infeasibility sentinel of the objective's sense and the loop
\* stops at the first checkpoint of that iteration: the iteration has no
\* fixing, no subproblem solve, no cut generation and no no-good cut.
C20_InfeasibleMasterStops ==
    (MasterSolvedThisIteration /\ ~mip_feasible) =>
        /\ dual_bound = InfeasibleSentinel
        /\ events = <<"master">>
        /\ ~fix_active
        /\ nlp_iteration = 0
        /\ pc \in {"check1", "results", "gate", "done"}
        /\ pc # "check1" =>
              (left_at = "check1" /\ termination_condition # "none")

\* The second iteration's master solve was infeasible, after a first
\* iteration that ran to its end, and the loop was left at checkpoint 1.
C20_Witness ==
    /\ pc = "results"
    /\ master_iteration = 2
    /\ ~mip_feasible
    /\ events = <<"master">>
    /\ left_at = "check1"
    /\ nlp_solves = 1
    /\ dual_bound = InfeasibleSentinel

\* ================================================================== C21
\* The largest finite-element point that is less than or equal to point;
\* the lower bound of the set when there is none.
C21_LargestAtOrBelow(fe, point) ==
    LET below == {x \in Elements(fe) : x <= point}
    IN IF below = {} THEN SeqMin(fe)
       ELSE CHOOSE x \in below : \A y \in below : y <= x

\* The finite-element point before point in the list.
C21_ElementBefore(fe, point) ==
    LET below == {x \in Elements(fe) : x < point}
    IN CHOOSE x \in below : \A y \in below : y <= x

C22_NearestIndex(a, p) ==
    CHOOSE i \in 1..Len(a) :
        \A j \in 1..Len(a) :
            \/ Abs(p - a[i]) < Abs(p - a[j])
            \/ (Abs(p - a[i]) = Abs(p - a[j]) /\ j <= i)

\* C22 (as stated): find_nearest_index(p, tol) returns the index of the
\* member closest to p, a tie going to the larger index, for p below,
\* between, at and above the members; with a tolerance the index is
\* returned only if the distance is less than the tolerance (None
\* otherwise), without one the index is always returned.
C22_NearestIndexReturned ==
    cs_call.op = "nearest" =>
        LET i == C22_NearestIndex(cs_points, cs_call.point)
            delta == Abs(cs_call.point - cs_points[i])
        IN cs_result = IF cs_call.tol = NoTolerance \/ delta < cs_call.tol
                       THEN Value(i)
                       ELSE ReturnedNone

\* ================================================================== C23
\* C23: the count argument passed to the rule on the n-th call of __next__
\* of a CountedCallGenerator is exactly n, whatever the rule returned on
\* the earlier calls, a None answered with ValueError included.
C23_CountIsCallNumber ==
    /\ Len(gen_passed) = gen_count
    /\ \A n \in 1..Len(gen_passed) : gen_passed[n].count = n

\* Three calls of __next__, the first of which ended in a ValueError.
C23_Witness ==
    /\ Len(gen_passed) = 3
    /\ gen_passed[1].outcome = "ValueError"
    /\ gen_passed[2].count = 2
    /\ gen_passed[3].count = 3

\* ================================================================== C30
\* C30: an initializer's kind is selected once. The counted-rule flag is
\* True from construction for a scalar component and undecided for an
\* indexed one; the first call of an indexed one sets it to True exactly
\* when the rule's argument count equals the index length + 2, to False
\* otherwise; every later call, with any index, keeps it, so all calls of
\* one initializer are answered in the same way.
C30_KindSelectedOnce ==
    /\ ci_scalar => ci_flag = "True"
    /\ (~ci_scalar /\ ci_calls = 0) => ci_flag = "None"
    /\ (~ci_scalar /\ ci_calls >= 1) =>
          ci_flag = IF ci_first_len + 2 = ci_nargs THEN "True" ELSE "False"
    /\ Cardinality(ci_answers) <= 1

\* An indexed initializer decided for the counted rule on a first call
\* with a tuple index of length 2, and was then called twice more.
C30_Witness ==
    /\ ~ci_scalar
    /\ ci_calls = 3
    /\ ci_first_len = 2
    /\ ci_nargs = 4
    /\ ci_flag = "True"
    /\ ci_answers = {"counted"}

\* ================================================================== C24
\* C24: in an iteration whose subproblem solve is reported not feasible,
\* the primal bound and the incumbent are not this iteration's, no
\* outer-approximation / affine cut of this iteration is added, and the
\* iteration still goes on through the release, the no-good cut and the
\* second termination checkpoint: the loop does not abort.
C24_InfeasibleSubproblemIteration ==
    (nlp_iteration = 1 /\ ~nlp_feasible) =>
        /\ incumbent.iter # master_iteration
        /\ primal_from # master_iteration
        /\ master_iteration \notin oa_cuts
        /\ pc \in {"accept", "release", "nogood", "check2", "while",
                    "results", "gate", "done"}
        /\ pc \in {"check2", "while", "results", "gate", "done"} =>
              events = <<"master", "fix", "nlp", "release", "nogood">>
        /\ pc \in {"results", "gate", "done"} => left_at = "check2"

\* The second iteration's subproblem was not feasible: the first
\* iteration's incumbent and cuts stand, the no-good cut was added and the
\* second checkpoint is about to be evaluated.
C24_Witness ==
    /\ pc = "check2"
    /\ master_iteration = 2
    /\ nlp_iteration = 1
    /\ ~nlp_feasible
    /\ incumbent.iter = 1
    /\ oa_cuts = {1}
    /\ added
    /\ LastEvent = "nogood"

\* ================================================================== C25
\* C25: the post-master-solve callback is invoked exactly once per master
\* iteration whose master solve returned, after the dual bound was updated
\* from that solve and before the iteration's first termination
\* checkpoint, also when the master solve was infeasible and when the
\* iteration then terminates the loop.
C25_CallbackOncePerIteration ==
    /\ callbacks = master_solves
    /\ callbacks <= master_iteration
    /\ MasterSolvedThisIteration => callbacks = master_iteration
    /\ pc = "check1" =>
          /\ callbacks = master_iteration
          /\ callback_dual = dual_bound
          /\ ~mip_feasible => callback_dual = InfeasibleSentinel

\* The second iteration's master solve was infeasible and the loop was
\* left at the first checkpoint: the callback ran in both iterations.
C25_Witness ==
    /\ pc = "results"
    /\ left_at = "check1"
    /\ master_iteration = 2
    /\ ~mip_feasible
    /\ callbacks = 2
    /\ callback_dual = InfeasibleSentinel

\* ================================================================== C26
\* C26: in LOA the true master objective is deactivated once the setup is
\* through and stays so; the penalty objective of every master solve is
\* re-derived from the slacks of every outer-approximation cut the master
\* holds at that moment (those of all earlier iterations), with sign +1
\* for minimization and -1 for maximization, and the dual bound is
\* updated from that re-derived expression.
C26_PenaltyObjectiveRederived ==
    alg = "LOA" =>
        /\ master_iteration >= 1 => ~main_obj_active
        /\ (pc # "setup" /\ raised_in # "setup") => ~main_obj_active
        /\ MasterSolvedThisIteration =>
              /\ slacks_in_obj = {k \in oa_cuts : k < master_iteration}
              /\ penalty_sign = (IF IsMin THEN 1 ELSE 0 - 1)
              /\ dual_from = "oa_obj"

\* A maximization run of LOA: the second master solve sums the slacks of
\* the first iteration's cuts, with sign -1.
C26_Witness ==
    /\ alg = "LOA"
    /\ ~IsMin
    /\ pc = "check1"
    /\ master_iteration = 2
    /\ slacks_in_obj = {1}
    /\ penalty_sign = 0 - 1
    /\ dual_from = "oa_obj"
    /\ ~main_obj_active

C27_SameSkeleton ==
    /\ twin.driver = OtherDriver
    /\ twin.pc = pc
    /\ twin.master_iteration = master_iteration
    /\ twin.master_solves = master_solves
    /\ twin.nlp_solves = nlp_solves
    /\ twin.callbacks = callbacks
    /\ twin.events = events
    /\ twin.dual_bound = dual_bound
    /\ twin.primal_bound = primal_bound
    /\ twin.termination_condition = termination_condition
    /\ twin.left_at = left_at
    /\ twin.results_produced = results_produced
    /\ twin.transfers = transfers
    /\ oa_cuts # {} => twin.cut_generator = CutGeneratorOf(OtherDriver)
    /\ master_solves > 0 =>
          /\ twin.dual_expression = DualExpressionOf(OtherDriver)
          /\ dual_from = DualExpressionOf(alg)
    /\ alg = "LOA" =>
          /\ twin.penalty_updates = 0
          /\ master_solves > 0 => penalty_sign # 0
    /\ alg = "GLOA" =>
          /\ penalty_sign = 0
          /\ twin.penalty_updates >= master_solves
          /\ twin.penalty_updates <= master_iteration

\* A LOA solve and the GLOA driver beside it have both returned as
\* converged after two iterations, GLOA having added affine cuts.
C27_Witness ==
    /\ alg = "LOA"
    /\ twin.driver = "GLOA"
    /\ Returned
    /\ twin.pc = "done"
    /\ master_iteration = 2
    /\ twin.master_iteration = 2
    /\ twin.termination_condition = "converged"
    /\ twin.cut_generator = "add_affine_cuts"
    /\ twin.transfers = 1
    /\ penalty_sign # 0
    /\ twin.penalty_updates = 0

\* ================================================================== C31
\* Strictly increasing order of a list.
C31_Strict(q) == \A i \in 1..(Len(q) - 1) : q[i] < q[i + 1]

\* C31: after a construct that succeeded, _fe is strictly increasing, has
\* at least two points and holds every declared bound, so that
\* get_upper_element_boundary returns the smallest finite-element point at
\* or above its argument (the largest one for an argument beyond it); a
\* construct on a set that would have fewer than two points, or no bounds
\* at all, raises ValueError, and a construct that raised leaves _fe
\* empty; a construct call on a constructed set changes nothing.
C31_ConstructEstablishesFe ==
    /\ [](cs_fe # <<>> =>
            /\ cs_constructed
            /\ C31_Strict(cs_fe)
            /\ Len(cs_fe) >= 2
            /\ cs_fe = cs_points
            /\ cs_lb # NoBound => cs_lb \in Elements(cs_fe)
            /\ cs_ub # NoBound => cs_ub \in Elements(cs_fe)
            /\ cs_declared \subseteq Elements(cs_fe)
            /\ \A p \in QueryPoints :
                  get_upper_element_boundary(cs_fe, p) =
                      IF \E x \in Elements(cs_fe) : x >= p
                      THEN Value(CHOOSE x \in Elements(cs_fe) :
                                  /\ x >= p
                                  /\ \A y \in Elements(cs_fe) :
                                        y >= p => x <= y)
                      ELSE Value(SeqMax(cs_fe)))
    /\ []((cs_constructs = 1 /\ cs_result = ReturnedNone) => cs_fe # <<>>)
    /\ []((cs_constructs >= 1 /\ cs_result = Raised("ValueError")) =>
            cs_fe = <<>>)
    /\ []((/\ cs_constructs = 1
           /\ Cardinality(MembersWithDeclaredBounds(cs_declared, cs_lb,
                                                    cs_ub)) < 2)
            => cs_result = Raised("ValueError"))
    /\ []((/\ cs_constructs = 1
           /\ BoundsHaveNone(MembersWithDeclaredBounds(cs_declared, cs_lb,
                                                       cs_ub)))
            => cs_result = Raised("ValueError"))
    /\ [][cs_constructed =>
            /\ cs_fe' = cs_fe
            /\ cs_points' = cs_points
            /\ cs_constructed'
            /\ cs_result' = ReturnedNone]_vars

\* A set declared with a point strictly inside its two bounds was
\* constructed, and construct was called on it a second time.
C31_Witness ==
    /\ cs_constructs = 2
    /\ cs_constructed
    /\ cs_result = ReturnedNone
    /\ cs_declared = {1}
    /\ cs_lb = 0
    /\ cs_ub = 3
    /\ cs_fe = <<0, 1, 3>>

====
